---------------------------- MODULE Spec2Model ----------------------------
(***************************************************************************)
(* A model of the map-reading layer of dobl-whoami-bot (src/mapparser.py)  *)
(* and of its inventory formatter (src/player.py).                         *)
(*                                                                         *)
(* The document is read-only for one query and re-parsed for the next, so  *)
(* the state is the parsed document (floors, chunks, tiles, objects), the  *)
(* Player record handed to the query, the item list handed to the         *)
(* inventory formatter, and the outcome of the last query.                 *)
(* Every query is one action.  An outcome is a record whose field "kind"   *)
(* is "ok" (with the returned value) or "raise" (with the exception).      *)
(*                                                                         *)
(* Conventions.  Pixel positions are integers (the source converts the     *)
(* attribute strings with int()).  An optional value (Python's None) is a  *)
(* sequence of length 0 or 1.  Cyrillic string constants of the source are *)
(* transliterated.                                                         *)
(***************************************************************************)
EXTENDS Integers, Sequences, FiniteSets, TLC

VARIABLES floors, chunks, tiles, objects, inventory, player, op, result

vars == <<floors, chunks, tiles, objects, inventory, player, op, result>>

-----------------------------------------------------------------------------
(* Program constants *)

NULL == 0
EMPTY == 1
ABYSS == 2
ENEMY == 3
MERCHANT == 4
EVENT == 5

TileIDs == {NULL, EMPTY, ABYSS, ENEMY, MERCHANT, EVENT}

RoomPx == 32
CellPx == 4
ChunkSize == 16

None == <<>>
Some(v) == <<v>>

Ok(v) == [kind |-> "ok", value |-> v]
Raise(e, a) == [kind |-> "raise", exc |-> e, at |-> a]
Idle == [kind |-> "idle"]

-----------------------------------------------------------------------------
(* Floor Locator *)

InFloor(f, objPos) ==
    /\ f.start[1] <= objPos[1]
    /\ f.start[2] <= objPos[2]
    /\ f.start[1] + f.size[1] > objPos[1]
    /\ f.start[2] + f.size[2] > objPos[2]

\* The first floor object, in document order, whose bounds contain the point.
\* The field idx is the position of the floor object in the document; the
\* source's Floor carries start, size and name only.
get_floor_px(objPos) ==
    LET hits == {i \in 1..Len(floors) : InFloor(floors[i], objPos)}
    IN  IF hits = {} THEN None
        ELSE LET i == CHOOSE j \in hits : \A k \in hits : j <= k
             IN  Some([start |-> floors[i].start, size |-> floors[i].size,
                       name |-> floors[i].name, idx |-> i])

get_floor_tile(tilePos) == get_floor_px(<<tilePos[1] * RoomPx, tilePos[2] * RoomPx>>)

get_floor_player(pl) == get_floor_px(pl.position)

\* getattr(floor, "name", None)
NameOf(fl) == IF fl = None THEN None ELSE Some(fl[1].name)

-----------------------------------------------------------------------------
(* Tile Resolver *)

\* The id stored at slot i (from 0, row-major) of the chunk declared at origin c.
ChunkData(c, i) ==
    LET p == <<c[1] + (i % ChunkSize), c[2] + (i \div ChunkSize)>>
    IN  IF p \in DOMAIN tiles THEN tiles[p] ELSE NULL

\* A resolver that indexes the chunk column-major.
get_tile_Transposed(pos) ==
    LET chunkPos == <<pos[1] - (pos[1] % ChunkSize), pos[2] - (pos[2] % ChunkSize)>>
    IN  IF chunkPos \in chunks
        THEN Ok(ChunkData(chunkPos, (pos[1] % ChunkSize) * ChunkSize + (pos[2] % ChunkSize)))
        ELSE Raise("UnknownTile", pos)

get_tile(pos) ==
    LET chunkPos == <<pos[1] - (pos[1] % ChunkSize), pos[2] - (pos[2] % ChunkSize)>>
    IN  IF chunkPos \in chunks
        THEN Ok(ChunkData(chunkPos, (pos[2] % ChunkSize) * ChunkSize + (pos[1] % ChunkSize)))
        ELSE Raise("UnknownTile", pos)

-----------------------------------------------------------------------------
(* Door Finder *)

RoomOf(position) == <<position[1] \div RoomPx, position[2] \div RoomPx>>
CellOf(position) == <<(position[1] % RoomPx) \div CellPx, (position[2] % RoomPx) \div CellPx>>

\* One of the four blocks of __list_doors: the doors it appends.
DoorBlock(pl, floor, npos, axis, edge, label) ==
    IF /\ get_tile(npos).value \notin {NULL, ABYSS}
       /\ NameOf(get_floor_tile(npos)) = Some(floor[1].name)
    THEN IF pl.isBlind
         THEN IF CellOf(pl.position)[axis] = edge THEN <<label>> ELSE <<>>
         ELSE <<label>>
    ELSE <<>>

Neighbours(roomPos) ==
    << <<roomPos[1], roomPos[2] - 1>>, <<roomPos[1], roomPos[2] + 1>>,
       <<roomPos[1] - 1, roomPos[2]>>, <<roomPos[1] + 1, roomPos[2]>> >>

list_doors(pl) ==
    LET roomPos == RoomOf(pl.position)
        floor == get_floor_player(pl)
        nb == Neighbours(roomPos)
        bad == {i \in 1..4 : get_tile(nb[i]).kind = "raise"}
    IN  IF floor = None THEN Ok(<<>>)
        ELSE IF bad # {}
             THEN get_tile(nb[CHOOSE i \in bad : \A j \in bad : i <= j])
             ELSE Ok(DoorBlock(pl, floor, nb[1], 2, 0, "sever")
                     \o DoorBlock(pl, floor, nb[2], 2, 7, "yug")
                     \o DoorBlock(pl, floor, nb[3], 1, 0, "zapad")
                     \o DoorBlock(pl, floor, nb[4], 1, 7, "vostok"))

\* A mutation of DoorSentence: three doors are joined without the conjunction.
DoorSentence_PlainJoin(doors, isBlind) ==
    CASE Len(doors) = 0 -> Ok(<<"V etoy komnate net dverey", IF isBlind THEN "?" ELSE ".">>)
      [] Len(doors) = 1 -> Ok(<<"Edinstvennaya dver vedyot na ", doors[1], ".">>)
      [] Len(doors) = 2 -> Ok(<<"Dveri vedut na ", doors[1], " i ", doors[2], ".">>)
      [] Len(doors) = 3 -> Ok(<<"Dveri vedut na ", doors[1], ", ", doors[2], ", ", doors[3], ".">>)
      [] Len(doors) = 4 -> Ok(<<"Dveri vedut na 4 storony sveta.">>)
      [] OTHER -> Raise("UnboundLocalError", "resp")

\* The sentence is a sequence of its pieces.
DoorSentence(doors, isBlind) ==
    CASE Len(doors) = 0 -> Ok(<<"V etoy komnate net dverey", IF isBlind THEN "?" ELSE ".">>)
      [] Len(doors) = 1 -> Ok(<<"Edinstvennaya dver vedyot na ", doors[1], ".">>)
      [] Len(doors) = 2 -> Ok(<<"Dveri vedut na ", doors[1], " i ", doors[2], ".">>)
      [] Len(doors) = 3 -> Ok(<<"Dveri vedut na ", doors[1], ", ", doors[2], " i ", doors[3], ".">>)
      [] Len(doors) = 4 -> Ok(<<"Dveri vedut na 4 storony sveta.">>)
      [] OTHER -> Raise("UnboundLocalError", "resp")

list_doors_string(pl) ==
    LET d == list_doors(pl)
    IN  IF d.kind = "raise" THEN d
        ELSE LET s == DoorSentence(d.value, pl.isBlind)
             IN  IF s.kind = "raise" THEN s
                 ELSE Ok([doors |-> d.value, sentence |-> s.value])

-----------------------------------------------------------------------------
(* Characters.  A character is its code point; a name is a sequence of     *)
(* characters.  Latin letters are 65..90 / 97..122, Cyrillic 1040..1071 /  *)
(* 1072..1103.                                                             *)

Upper(c) ==
    IF c \in 97..122 THEN c - 32
    ELSE IF c \in 1072..1103 THEN c - 32
    ELSE c

Lower(c) ==
    IF c \in 65..90 THEN c + 32
    ELSE IF c \in 1040..1071 THEN c + 32
    ELSE c

-----------------------------------------------------------------------------
(* Floor Renderer.  A grid cell is the sequence of the colour directives   *)
(* and glyphs written for it; the legend is the dict in insertion order, a *)
(* sequence of <<key, value>>.                                             *)

\* legend[key] = val on a Python dict: an existing key keeps its place.
DictSet(legend, key, val) ==
    IF \E i \in 1..Len(legend) : legend[i][1] = key
    THEN [i \in 1..Len(legend) |-> IF legend[i][1] = key THEN <<key, val>> ELSE legend[i]]
    ELSE Append(legend, <<key, val>>)

get_player_floor_coords(pl) ==
    LET roomPos == RoomOf(pl.position)
        floor == get_floor_player(pl)
        floorStart == <<floor[1].start[1] \div RoomPx, floor[1].start[2] \div RoomPx>>
    IN  <<roomPos[1] - floorStart[1], roomPos[2] - floorStart[2]>>

\* The body of the loop of construct_ascii_map for cell (x, y) with tile id
\* tile: the text appended to the representation and the legend after it.
MapCell(pl, level, x, y, tile, legend) ==
    LET here == get_player_floor_coords(pl) = <<x, y>>
        character == IF level >= 2 /\ here THEN <<"Back.WHITE">> ELSE <<>>
        body ==
            IF tile \in {NULL, ABYSS} THEN [text |-> <<" ">>, legend |-> legend]
            ELSE IF level >= 2 /\ tile = EVENT
            THEN [text |-> character \o <<"Fore.GREEN", "S", "RESET">>,
                  legend |-> DictSet(legend, <<"Fore.GREEN", "S", "RESET">>, "Sobytie")]
            ELSE IF level >= 2 /\ tile = ENEMY
            THEN [text |-> character \o <<"Fore.RED", "N", "RESET">>,
                  legend |-> DictSet(legend, <<"Fore.RED", "N", "RESET">>, "NPC")]
            ELSE IF level >= 2 /\ tile = MERCHANT
            THEN [text |-> character \o <<"Fore.YELLOW", "T", "RESET">>,
                  legend |-> DictSet(legend, <<"Fore.YELLOW", "T", "RESET">>, "Torgovets/Kazino")]
            ELSE IF level >= 2 /\ tile = EMPTY
            THEN [text |-> character \o <<"P", "RESET">>,
                  legend |-> DictSet(legend, <<"P", "RESET">>, "Pusto")]
            ELSE IF level = 1 /\ here
            THEN [text |-> <<"Back.WHITE", "Fore.BLACK", Upper(pl.name[1]), "RESET">>,
                  legend |-> DictSet(legend,
                                <<"Back.WHITE", "Fore.BLACK", Upper(pl.name[1]), "RESET">>, pl.name)]
            ELSE [text |-> <<"#">>, legend |-> DictSet(legend, <<"#">>, "???")]
    IN  [text |-> body.text,
         legend |-> IF character # <<>> /\ character[1] = "Back.WHITE"
                    THEN DictSet(body.legend, <<"Back.WHITE", " ", "RESET">>, pl.name)
                    ELSE body.legend]

\* The two nested loops, cell k (row-major, from 0) onwards.
RECURSIVE MapLoop(_, _, _, _, _, _, _)
MapLoop(pl, level, floorStart, floorSize, k, rows, legend) ==
    IF k >= floorSize[1] * floorSize[2] \/ floorSize[1] <= 0
    THEN Ok([rows |-> rows, legend |-> legend])
    ELSE LET x == k % floorSize[1]
             y == k \div floorSize[1]
             t == get_tile(<<floorStart[1] + x, floorStart[2] + y>>)
         IN  IF t.kind = "raise" THEN t
             ELSE LET c == MapCell(pl, level, x, y, t.value, legend)
                  IN  MapLoop(pl, level, floorStart, floorSize, k + 1,
                              [rows EXCEPT ![y + 1] = Append(@, c.text)], c.legend)

construct_ascii_map(pl, level) ==
    LET floor == get_floor_player(pl)
    IN  IF floor = None THEN Raise("AttributeError", "start")
        ELSE LET floorStart == <<floor[1].start[1] \div RoomPx, floor[1].start[2] \div RoomPx>>
                 floorSize == <<floor[1].size[1] \div RoomPx, floor[1].size[2] \div RoomPx>>
                 loop == MapLoop(pl, level, floorStart, floorSize, 0,
                                 [y \in 1..floorSize[2] |-> <<>>], <<>>)
                 last == get_tile(<<floorStart[1] + 1, floorStart[2] + 4>>)
             IN  IF loop.kind = "raise" THEN loop
                 ELSE IF last.kind = "raise" THEN last
                 ELSE Ok([rows |-> loop.value.rows,
                          legend |-> IF level > 0 THEN loop.value.legend ELSE <<>>])

-----------------------------------------------------------------------------
(* Map objects and their properties.                                       *)
(*                                                                         *)
(* A property element is [present, value, text]: value is the "value"      *)
(* attribute and text the element text, each optional.  An object is       *)
(* [name, x, y, class, children, props]: name and class are optional       *)
(* attributes, children says whether the element has any child element,    *)
(* props is the optional <properties> child as a record of its properties. *)
(* Names and owners are sequences of characters; the other property values *)
(* are strings.                                                            *)

Absent == [present |-> FALSE, value |-> None, text |-> None]
Attr(v) == [present |-> TRUE, value |-> Some(v), text |-> None]
TextOnly(t) == [present |-> TRUE, value |-> None, text |-> Some(t)]

NoProps == [id |-> Absent, inventory |-> Absent, group |-> Absent,
            blind |-> Absent, hidden |-> Absent, owner |-> Absent]

\* "???"
QQQ == <<63, 63, 63>>

\* props.get(key, default) over {name: prop.attrib.get("value")}
RoomProp(obj, key, default) ==
    IF obj.props = None THEN Some(default)
    ELSE IF obj.props[1][key].present THEN obj.props[1][key].value
    ELSE Some(default)

-----------------------------------------------------------------------------
(* Alphabet-aware equality *)

ASCII_DEFAULT_CHARS ==
    <<33, 34, 35, 36, 37, 38, 39, 40, 41, 42, 43, 44, 45, 46, 47, 58, 59, 60, 61, 62,
      63, 91, 92, 93, 94, 95, 96, 123, 124, 125, 126, 48, 49, 50, 51, 52, 53, 54, 55,
      56, 57, 65, 66, 67, 68, 69, 70, 71, 72, 73, 74, 75, 76, 77, 78, 79, 80, 81, 82,
      83, 84, 85, 86, 87>>

LAT_CYR_LOOKALIKES ==
    { <<65, 1040>>, <<66, 1042>>, <<69, 1045>>, <<75, 1050>>, <<77, 1052>>, <<72, 1053>>,
      <<79, 1054>>, <<80, 1056>>, <<67, 1057>>, <<84, 1058>>, <<88, 1061>>, <<89, 1059>>,
      <<97, 1072>>, <<98, 1074>>, <<101, 1077>>, <<107, 1082>>, <<109, 1084>>,
      <<104, 1085>>, <<111, 1086>>, <<112, 1088>>, <<99, 1089>>, <<116, 1090>>,
      <<120, 1093>>, <<121, 1091>> }

\* A comparison that looks the pair up as given, without ordering it.
loose_char_equals_Unordered(char1, char2) ==
    IF <<char1, char2>> \in LAT_CYR_LOOKALIKES THEN TRUE ELSE char1 = char2

loose_char_equals(char1, char2) ==
    LET a == IF char1 > char2 THEN char2 ELSE char1
        b == IF char1 > char2 THEN char1 ELSE char2
    IN  IF <<a, b>> \in LAT_CYR_LOOKALIKES THEN TRUE ELSE a = b

loose_char_in(char, container) ==
    \E i \in 1..Len(container) : loose_char_equals(char, container[i])

-----------------------------------------------------------------------------
(* Room Renderer: the objects of the player's room *)

\* str(n) for a cell coordinate 0..7
StrOfCell(n) == <<48 + n>>

RECURSIVE LexLess(_, _)
LexLess(a, b) ==
    IF b = <<>> THEN FALSE
    ELSE IF a = <<>> THEN TRUE
    ELSE IF a[1] # b[1] THEN a[1] < b[1]
    ELSE LexLess(Tail(a), Tail(b))

SortKey(o) == o.name \o StrOfCell(o.x) \o StrOfCell(o.y)

\* sorted() is stable: e goes after the entries whose key is not greater.
RECURSIVE InsertSorted(_, _)
InsertSorted(sorted, e) ==
    IF sorted = <<>> THEN <<e>>
    ELSE IF LexLess(SortKey(e), SortKey(sorted[1])) THEN <<e>> \o sorted
    ELSE <<sorted[1]>> \o InsertSorted(Tail(sorted), e)

RECURSIVE Sorted(_)
Sorted(seq) ==
    IF seq = <<>> THEN <<>>
    ELSE InsertSorted(Sorted(SubSeq(seq, 1, Len(seq) - 1)), seq[Len(seq)])

SameRoom(obj, pl) ==
    /\ obj.x - (obj.x % RoomPx) = pl.position[1] - (pl.position[1] % RoomPx)
    /\ obj.y - (obj.y % RoomPx) = pl.position[2] - (pl.position[2] % RoomPx)

\* The condition of lines 188-191.
Shown(obj, pl) ==
    LET name == IF obj.name = None THEN QQQ ELSE obj.name[1]
        group == RoomProp(obj, "group", "")
        hidden == RoomProp(obj, "hidden", "false") = Some("true")
        owner == RoomProp(obj, "owner", <<>>)
    IN  \/ ~hidden
        \/ (owner # Some(<<>>) /\ owner = Some(pl.name))
        \/ (group # Some("") /\ group = pl.group)
        \/ (name # QQQ /\ name = pl.name)

RoomTuple(obj) ==
    [name |-> IF obj.name = None THEN QQQ ELSE obj.name[1],
     x |-> (obj.x % RoomPx) \div CellPx,
     y |-> (obj.y % RoomPx) \div CellPx,
     class |-> IF obj.class = None THEN "" ELSE obj.class[1]]

RECURSIVE Collect(_, _)
Collect(objs, pl) ==
    IF objs = <<>> THEN <<>>
    ELSE (IF SameRoom(objs[1], pl) /\ Shown(objs[1], pl) THEN <<RoomTuple(objs[1])>> ELSE <<>>)
         \o Collect(Tail(objs), pl)

\* objs are the objects of the three render layers in document order.
get_same_room_objects(objs, pl) == Sorted(Collect(objs, pl))

-----------------------------------------------------------------------------
(* Room Renderer: the grid and the legend.                                 *)
(*                                                                         *)
(* A grid cell (and a legend key) is [style, ch]: the glyph ch wrapped in  *)
(* the colour directives of style and Style.RESET_ALL, or the bare glyph   *)
(* when style is "none".  The legend is the dict in insertion order, a     *)
(* sequence of <<key, names>>.                                             *)

Glyph(style, ch) == [style |-> style, ch |-> ch]
Dot == Glyph("none", 46)
Unknown == Glyph("none", 63)

GridSize == 8

DictHas(legend, key) == \E i \in 1..Len(legend) : legend[i][1] = key
DictGet(legend, key) == legend[CHOOSE i \in 1..Len(legend) : legend[i][1] = key][2]
DictDel(legend, key) == SelectSeq(legend, LAMBDA e : e[1] # key)

\* A window that stops at the viewer's own column and row.
InWindow_Narrow(x, y, playerPos) ==
    /\ x - playerPos[1] \in -1..0
    /\ y - playerPos[2] \in -1..0

\* Lines 214 and 222-225: within one cell of the viewer.
InWindow(x, y, playerPos) ==
    /\ x - playerPos[1] \in -1..1
    /\ y - playerPos[2] \in -1..1

EmptyGrid(pl) ==
    LET playerPos == CellOf(pl.position)
    IN  [y \in 1..GridSize |->
            [x \in 1..GridSize |->
                IF ~pl.isBlind \/ (pl.isBlind /\ InWindow(x - 1, y - 1, playerPos))
                THEN Dot ELSE Unknown]]

\* Lines 251-264: the colour of a new glyph.
StyleOf(obj, pl) ==
    IF obj.name = pl.name THEN "viewer"
    ELSE IF obj.class = "NPC" THEN "npc"
    ELSE IF obj.class = "Predmet(-y)" THEN "item"
    ELSE IF obj.class = "Igrok" THEN "player"
    ELSE IF obj.class = "Trup" THEN "corpse"
    ELSE IF obj.class = "Struktura" THEN "structure"
    ELSE "none"

\* Lines 248-250: the while loop over the fallback alphabet.
RECURSIVE PickDefault(_, _, _)
PickDefault(firstChar, usedChars, nextDefaultIndex) ==
    IF ~loose_char_in(firstChar, usedChars)
    THEN Ok([ch |-> firstChar, next |-> nextDefaultIndex])
    ELSE IF nextDefaultIndex >= Len(ASCII_DEFAULT_CHARS)
    THEN Raise("IndexError", nextDefaultIndex)
    ELSE PickDefault(ASCII_DEFAULT_CHARS[nextDefaultIndex + 1], usedChars, nextDefaultIndex + 1)

\* Lines 245-250.
PickChar(name, usedChars, nextDefaultIndex) ==
    LET upper == Upper(name[1])
        first == IF loose_char_in(upper, usedChars) THEN Lower(upper) ELSE upper
    IN  PickDefault(first, usedChars, nextDefaultIndex)

\* Lines 229-243: the object's cell already holds a glyph.
SharedCell(st, obj, pl, existingChar) ==
    IF ~DictHas(st.legend, existingChar) THEN Raise("KeyError", existingChar)
    ELSE IF obj.name = pl.name
    THEN LET coloredChar == Glyph("viewer", existingChar.ch)
             moved == DictSet(st.legend, coloredChar,
                              DictGet(st.legend, existingChar) \o <<obj.name>>)
         IN  Ok([st EXCEPT !.rows[obj.y + 1][obj.x + 1] = coloredChar,
                           !.legend = DictDel(moved, existingChar)])
    ELSE Ok([st EXCEPT !.legend =
                DictSet(st.legend, existingChar,
                        Append(DictGet(st.legend, existingChar), obj.name))])

\* Lines 244-267: the object's cell is free.
NewCell(st, obj, pl) ==
    IF obj.name = <<>> THEN Raise("IndexError", 0)
    ELSE LET pick == PickChar(obj.name, st.usedChars, st.nextDefaultIndex)
         IN  IF pick.kind = "raise" THEN pick
             ELSE LET coloredChar == Glyph(StyleOf(obj, pl), pick.value.ch)
                  IN  Ok([rows |-> [st.rows EXCEPT ![obj.y + 1][obj.x + 1] = coloredChar],
                          legend |-> DictSet(st.legend, coloredChar, <<obj.name>>),
                          usedChars |-> Append(st.usedChars, pick.value.ch),
                          nextDefaultIndex |-> pick.value.next])

\* One iteration of the loop of lines 220-267.
RoomStep(st, obj, pl) ==
    IF pl.isBlind /\ ~InWindow(obj.x, obj.y, CellOf(pl.position)) THEN Ok(st)
    ELSE LET existingChar == st.rows[obj.y + 1][obj.x + 1]
         IN  IF existingChar # Dot THEN SharedCell(st, obj, pl, existingChar)
             ELSE NewCell(st, obj, pl)

RECURSIVE RoomLoop(_, _, _)
RoomLoop(st, objlist, pl) ==
    IF objlist = <<>> THEN Ok(st)
    ELSE LET r == RoomStep(st, objlist[1], pl)
         IN  IF r.kind = "raise" THEN r ELSE RoomLoop(r.value, Tail(objlist), pl)

RoomStart(pl) ==
    [rows |-> EmptyGrid(pl), legend |-> <<>>, usedChars |-> <<>>, nextDefaultIndex |-> 0]

\* The returned text: the rows of the grid and the legend lines.
construct_ascii_room(objs, pl) ==
    LET r == RoomLoop(RoomStart(pl), get_same_room_objects(objs, pl), pl)
    IN  IF r.kind = "raise" THEN r
        ELSE Ok([rows |-> r.value.rows, legend |-> r.value.legend])

-----------------------------------------------------------------------------
(* Inventory Formatter.                                                    *)
(*                                                                         *)
(* A string of the inventory is a sequence of tokens [t, a, b, color]; a   *)
(* token is a maximal piece of text that the regular expressions of        *)
(* format_inventory_list treat as a unit:                                  *)
(*   "nl"        a line break                                              *)
(*   "text"      a word without special characters (a names the word)      *)
(*   "lt", "gt"  the escapes &lt; and &gt;                                 *)
(*   "hidparen"  ??? followed by a parenthesised group                     *)
(*   "hidcomma"  ??? followed by a bare segment and a comma                *)
(*   "hidbrace"  ??? followed by a bare segment and a closing brace        *)
(*   "partial"   a word followed by ???                                    *)
(*   "alias"     a parenthesised alias that is no durability pair          *)
(*   "lbrace"    an opening brace                                          *)
(*   "pair"      a durability pair (a/b)                                   *)
(*   "equip"     digits, the equipped suffix and a period                  *)
(*   "price"     digits and the price suffix                               *)
(* The formatter rewrites them to "text", "hidden" (the marker ??? with    *)
(* its delimiter) and tokens whose color is the accent wrapped around      *)
(* them.  Blanks between tokens are implicit.                              *)

Tok(t, a, b) == [t |-> t, a |-> a, b |-> b, color |-> ""]
Colored(tok, color) == [tok EXCEPT !.color = color]

\* str.split("\n")
RECURSIVE Split(_)
Split(str) ==
    IF \A i \in 1..Len(str) : str[i].t # "nl" THEN <<str>>
    ELSE LET i == CHOOSE j \in 1..Len(str) :
                      str[j].t = "nl" /\ \A k \in 1..(j - 1) : str[k].t # "nl"
         IN  <<SubSeq(str, 1, i - 1)>> \o Split(SubSeq(str, i + 1, Len(str)))

\* Lines 80-81.
DecodeEntities(item) ==
    [i \in 1..Len(item) |->
        IF item[i].t \in {"lt", "gt"} THEN Tok("text", 0, 0) ELSE item[i]]

\* Line 84.
RedactHidden(item) ==
    [i \in 1..Len(item) |->
        IF item[i].t = "hidparen" THEN Tok("text", 0, 0)
        ELSE IF item[i].t = "hidcomma" THEN Tok("hidden", 1, 0)
        ELSE IF item[i].t = "hidbrace" THEN Tok("hidden", 2, 0)
        ELSE item[i]]

\* Line 85.
RedactPartial(item) ==
    [i \in 1..Len(item) |->
        IF item[i].t = "partial" THEN Tok("text", item[i].a, 0) ELSE item[i]]

\* Lines 87-88: with a brace in the line, the parenthesised groups before
\* the first brace are dropped.
HideName(item) ==
    IF \A i \in 1..Len(item) : item[i].t # "lbrace" THEN item
    ELSE LET br == CHOOSE j \in 1..Len(item) :
                       item[j].t = "lbrace" /\ \A k \in 1..(j - 1) : item[k].t # "lbrace"
         IN  SelectSeq(SubSeq(item, 1, br - 1), LAMBDA k : k.t \notin {"alias", "pair"})
             \o SubSeq(item, br, Len(item))

\* Lines 92 and 95.
ColorizeMarkers(item) ==
    [i \in 1..Len(item) |->
        IF item[i].t = "equip" THEN Colored(item[i], "GREEN")
        ELSE IF item[i].t = "hidden" THEN Colored(item[i], "MAGENTA")
        ELSE item[i]]

\* Lines 98-103: the first pair found decides, re.sub wraps every pair.
ColorizeDurability(item) ==
    LET durability == SelectSeq(item, LAMBDA k : k.t = "pair")
    IN  IF durability = <<>> THEN Ok(item)
        ELSE IF durability[1].b = 0 THEN Raise("ZeroDivisionError", durability[1])
        ELSE IF 4 * durability[1].a <= durability[1].b
        THEN Ok([i \in 1..Len(item) |->
                    IF item[i].t = "pair" THEN Colored(item[i], "RED") ELSE item[i]])
        ELSE Ok(item)

\* Line 106.
ColorizePrice(item) ==
    [i \in 1..Len(item) |->
        IF item[i].t = "price" THEN Colored(item[i], "YELLOW") ELSE item[i]]

\* The body of the loop of lines 79-108.
FormatItem(item) ==
    LET d == ColorizeDurability(ColorizeMarkers(
                 HideName(RedactPartial(RedactHidden(DecodeEntities(item))))))
    IN  IF d.kind = "raise" THEN d ELSE Ok(ColorizePrice(d.value))

RECURSIVE FormatLoop(_, _)
FormatLoop(inv, formattedInventory) ==
    IF inv = <<>> THEN Ok(formattedInventory)
    ELSE LET f == FormatItem(inv[1])
         IN  IF f.kind = "raise" THEN f
             ELSE FormatLoop(Tail(inv), Append(formattedInventory, f.value))

format_inventory_list(inv) == FormatLoop(inv, <<>>)

-----------------------------------------------------------------------------
(* Player Factory *)

\* props.get(key, default) over {name: prop.attrib.get("value") or prop.text};
\* empty is the empty string of the value's type.
PlayerProp(obj, key, default, empty) ==
    IF obj.props = None THEN Some(default)
    ELSE LET p == obj.props[1][key]
         IN  IF ~p.present THEN Some(default)
             ELSE IF p.value # None /\ p.value # Some(empty) THEN p.value
             ELSE p.text

\* __search_object: the index of the first object bearing the name, or None.
search_object(objs, objectname) ==
    LET hits == {i \in 1..Len(objs) : objs[i].name = Some(objectname)}
    IN  IF hits = {} THEN None ELSE Some(CHOOSE i \in hits : \A j \in hits : i <= j)

\* str() of an optional string
StrOf(v) == IF v = None THEN "None" ELSE v[1]

\* Lines 87-93 and 112-123: the formatted inventory of an object.
InventoryProp(obj) ==
    LET raw == PlayerProp(obj, "inventory", <<>>, <<>>)
    IN  IF raw = None THEN Raise("AttributeError", "split")
        ELSE format_inventory_list(Split(raw[1]))

get_objects_inventory(objs, objectname) ==
    LET obj == search_object(objs, objectname)
    IN  IF obj = None THEN Raise("MapObjectNotFoundException", objectname)
        ELSE InventoryProp(objs[obj[1]])

\* An element without child elements is false (line 107).  The stat, level
\* and ability properties are taken absent: their defaults always parse.
get_player(objs, playername, playerID) ==
    LET found == search_object(objs, playername)
    IN  IF found = None \/ ~objs[found[1]].children
        THEN Raise("MapObjectNotFoundException", playername)
        ELSE LET pl == objs[found[1]]
                 foundPlayerID == PlayerProp(pl, "id", "", "")
                 inv == InventoryProp(pl)
                 group == PlayerProp(pl, "group", "", "")
                 blind == PlayerProp(pl, "blind", "false", "")
             IN  IF playerID # StrOf(foundPlayerID)
                 THEN Raise("MapObjectWrongIDException", StrOf(foundPlayerID))
                 ELSE IF inv.kind = "raise" THEN inv
                 ELSE IF blind = None THEN Raise("AttributeError", "lower")
                 ELSE Ok([position |-> <<pl.x, pl.y>>,
                          name |-> pl.name[1],
                          inventory |-> inv.value,
                          group |-> group,
                          isBlind |-> blind[1] \in {"true", "1", "True", "TRUE"}])

-----------------------------------------------------------------------------
(* Bounds of the model *)

MaxFloors == 2
MaxLevel == 3
MaxObjects == 3
MaxLines == 2
MaxLineLen == 2

RECURSIVE SeqsUpTo(_, _)
SeqsUpTo(S, n) ==
    IF n = 0 THEN {<<>>}
    ELSE LET shorter == SeqsUpTo(S, n - 1)
         IN  shorter \cup {Append(s, e) : s \in {t \in shorter : Len(t) = n - 1}, e \in S}

-----------------------------------------------------------------------------
(* describe_doors: the documents and players of SpecDoors *)

\* The player's room is room (0, 0); its north and west neighbours lie in the
\* chunks declared at (0, -16) and (-16, 0).
DoorRooms == {<<0, 0>>, <<0, -1>>, <<0, 1>>, <<-1, 0>>, <<1, 0>>}
DoorTiles == {NULL, ABYSS, EVENT}
DoorChunkSets ==
    { {<<0, 0>>, <<0, -16>>, <<-16, 0>>}, {<<0, 0>>, <<0, -16>>}, {<<0, 0>>, <<-16, 0>>} }
DoorFloorObjects ==
    { [start |-> <<0, 0>>, size |-> <<64, 64>>, name |-> "F"],
      [start |-> <<-32, -32>>, size |-> <<96, 96>>, name |-> "G"],
      [start |-> <<32, 0>>, size |-> <<32, 32>>, name |-> "F"],
      [start |-> <<32, 0>>, size |-> <<32, 32>>, name |-> "G"] }
DoorOffsets == {3, 4, 28}
DoorPositions == {<<x, y>> : x \in DoorOffsets, y \in DoorOffsets} \cup {<<200, 3>>}

NoObjects == <<>>

\* The name "v".
NameV == <<118>>

InitDoors ==
    /\ floors \in SeqsUpTo(DoorFloorObjects, MaxFloors)
    /\ chunks \in DoorChunkSets
    /\ tiles \in [DoorRooms -> DoorTiles]
    /\ tiles[<<0, 0>>] = EVENT
    /\ objects = NoObjects
    /\ inventory = <<>>
    /\ player = [position |-> <<3, 3>>, name |-> NameV, isBlind |-> FALSE]
    /\ op = <<"idle">>
    /\ result = Idle

\* Between two queries the document is parsed again: the player object may
\* have moved and its blindness flag may have changed.
MovePlayer ==
    /\ \/ \E pos \in DoorPositions \ {player.position} :
              player' = [player EXCEPT !.position = pos]
       \/ player' = [player EXCEPT !.isBlind = ~player.isBlind]
    /\ op' = <<"idle">>
    /\ result' = Idle
    /\ UNCHANGED <<floors, chunks, tiles, objects, inventory>>

DescribeDoors ==
    /\ op' = <<"describe_doors">>
    /\ result' = list_doors_string(player)
    /\ UNCHANGED <<floors, chunks, tiles, objects, inventory, player>>

NextDoors == MovePlayer \/ DescribeDoors

SpecDoors == InitDoors /\ [][NextDoors]_vars

-----------------------------------------------------------------------------
(* Claims about the Door Finder *)

\* The tile the document stores for a room.
StoredTile(p) == IF p \in DOMAIN tiles THEN tiles[p] ELSE NULL

Directions == {"sever", "yug", "zapad", "vostok"}
Contains(seq, e) == \E i \in 1..Len(seq) : seq[i] = e

NeighbourOf(dir) ==
    LET r == <<player.position[1] \div 32, player.position[2] \div 32>>
    IN  CASE dir = "sever" -> <<r[1], r[2] - 1>>
          [] dir = "yug" -> <<r[1], r[2] + 1>>
          [] dir = "zapad" -> <<r[1] - 1, r[2]>>
          [] dir = "vostok" -> <<r[1] + 1, r[2]>>

LocalCell == <<(player.position[1] % 32) \div 4, (player.position[2] % 32) \div 4>>

OnEdge(dir) ==
    CASE dir = "sever" -> LocalCell[2] = 0
      [] dir = "yug" -> LocalCell[2] = 7
      [] dir = "zapad" -> LocalCell[1] = 0
      [] dir = "vostok" -> LocalCell[1] = 7

\* The document's floor objects containing a pixel, first in document order.
FloorIndexAt(px) ==
    LET hits == {i \in 1..Len(floors) :
                    /\ floors[i].start[1] <= px[1] /\ px[1] < floors[i].start[1] + floors[i].size[1]
                    /\ floors[i].start[2] <= px[2] /\ px[2] < floors[i].start[2] + floors[i].size[2]}
    IN  IF hits = {} THEN 0 ELSE CHOOSE i \in hits : \A j \in hits : i <= j

DoorsAnswered == op = <<"describe_doors">> /\ result.kind = "ok"

\* C1 (as claimed): for a player on a floor, a direction is in the door list
\* iff the neighbouring room's tile is neither Null nor Abyss, the floor at
\* the neighbouring room is the same floor object as the floor at the
\* player's position, and the player is not blind or sits on the facing edge.
C1_DoorsIffSameFloor ==
    (DoorsAnswered /\ FloorIndexAt(player.position) # 0) =>
        \A dir \in Directions :
            Contains(result.value.doors, dir) <=>
                /\ StoredTile(NeighbourOf(dir)) \notin {NULL, ABYSS}
                /\ FloorIndexAt(<<NeighbourOf(dir)[1] * 32, NeighbourOf(dir)[2] * 32>>)
                      = FloorIndexAt(player.position)
                /\ (~player.isBlind \/ OnEdge(dir))

\* C8: the sentence is determined by the door list: the 0..4 case table, and
\* every list the door finder produces has at most four entries.
C8_SentenceTable ==
    DoorsAnswered =>
        LET d == result.value.doors
            s == result.value.sentence
        IN  /\ Len(d) \in 0..4
            /\ Len(d) = 0 => s = <<"V etoy komnate net dverey", IF player.isBlind THEN "?" ELSE ".">>
            /\ Len(d) = 1 => s = <<"Edinstvennaya dver vedyot na ", d[1], ".">>
            /\ Len(d) = 2 => s = <<"Dveri vedut na ", d[1], " i ", d[2], ".">>
            /\ Len(d) = 3 => s = <<"Dveri vedut na ", d[1], ", ", d[2], " i ", d[3], ".">>
            /\ Len(d) = 4 => s = <<"Dveri vedut na 4 storony sveta.">>

C8_Witness ==
    /\ DoorsAnswered
    /\ Len(result.value.doors) = 3
    /\ player.isBlind = FALSE

-----------------------------------------------------------------------------
(* render_floor: the documents and players of SpecFloor *)

\* Rooms of the floors below: around the origin of the chunk declared at
\* (0, 0) and in its rows 12 and 13.
FloorRooms == {<<x, y>> : x \in 0..2, y \in {0, 1, 12, 13}}
Layout(a, b) == [r \in FloorRooms |-> IF (r[1] + r[2]) % 2 = 0 THEN a ELSE b]
FloorChunkSets == { {<<0, 0>>}, {<<0, 0>>, <<0, 16>>, <<0, -16>>, <<-16, 0>>} }
FloorFloorObjects ==
    { [start |-> st, size |-> sz, name |-> "F"] :
        st \in {<<0, 0>>, <<0, 384>>}, sz \in {<<32, 32>>, <<64, 32>>, <<64, 64>>} }
FloorPositions == {<<3, 3>>, <<40, 3>>, <<3, 387>>, <<200, 3>>}

InitFloor ==
    /\ floors \in SeqsUpTo(FloorFloorObjects, MaxFloors)
    /\ chunks \in FloorChunkSets
    /\ tiles \in {Layout(a, b) : a \in TileIDs, b \in TileIDs}
    /\ objects = NoObjects
    /\ inventory = <<>>
    /\ player = [position |-> <<3, 3>>, name |-> NameV, isBlind |-> FALSE]
    /\ op = <<"idle">>
    /\ result = Idle

MoveViewer ==
    /\ \E pos \in FloorPositions \ {player.position} :
          player' = [player EXCEPT !.position = pos]
    /\ op' = <<"idle">>
    /\ result' = Idle
    /\ UNCHANGED <<floors, chunks, tiles, objects, inventory>>

RenderFloor ==
    /\ \E level \in 0..MaxLevel :
          /\ op' = <<"render_floor", level>>
          /\ result' = construct_ascii_map(player, level)
    /\ UNCHANGED <<floors, chunks, tiles, objects, inventory, player>>

NextFloor == MoveViewer \/ RenderFloor \/ DescribeDoors

SpecFloor == InitFloor /\ [][NextFloor]_vars

-----------------------------------------------------------------------------
(* Claims about the Floor Renderer and the Floor Locator *)

OffEveryFloor == FloorIndexAt(player.position) = 0

\* C5 (as claimed): for a player outside every floor, describe_doors answers
\* the no-doors sentence and render_floor returns a result at every level.
C5_NoFloorIsRecoverable ==
    OffEveryFloor =>
        /\ op = <<"describe_doors">> =>
              /\ result.kind = "ok"
              /\ result.value.sentence = <<"V etoy komnate net dverey", "." >>
        /\ op[1] = "render_floor" => result.kind = "ok"

FloorRendered == op[1] = "render_floor" /\ result.kind = "ok"

ViewerCell ==
    LET f == floors[FloorIndexAt(player.position)]
        x == player.position[1] \div 32 - f.start[1] \div 32
        y == player.position[2] \div 32 - f.start[2] \div 32
    IN  result.value.rows[y + 1][x + 1]

HasHighlightEntry ==
    \E i \in 1..Len(result.value.legend) :
        result.value.legend[i][1] = <<"Back.WHITE", " ", "RESET">>

\* C7 (as claimed): at level 2 or higher the cell of the viewer's room carries
\* the highlight background whatever its tile, and the highlight legend entry
\* is present only if that cell is highlighted.
C7_ViewerRoomHighlighted ==
    (FloorRendered /\ op[2] >= 2) =>
        /\ Contains(ViewerCell, "Back.WHITE")
        /\ HasHighlightEntry => Contains(ViewerCell, "Back.WHITE")

-----------------------------------------------------------------------------
(* render_room: the documents and viewers of SpecRoom *)

NameW == <<119>>
\* The name "."
NameDot == <<46>>

MapObject(name, pos, class, props) ==
    [name |-> name, x |-> pos[1], y |-> pos[2], class |-> class,
     children |-> TRUE, props |-> props]

HiddenProps(owner, group) ==
    Some([NoProps EXCEPT !.hidden = Attr("true"), !.owner = owner, !.group = group])

\* Pixels of room (0, 0) in the cells (1, 1), (2, 2) and (3, 1), and a pixel
\* of room (1, 0).
PxA == <<5, 6>>
PxB == <<8, 11>>
PxC == <<12, 4>>
PxElsewhere == <<37, 6>>

RoomObjects ==
    { MapObject(Some(NameV), PxA, Some("Igrok"), None),
      MapObject(Some(NameV), PxA, Some("Trup"), None),
      MapObject(Some(NameW), PxA, Some("Igrok"), None),
      MapObject(Some(NameW), PxC, Some("NPC"), None),
      MapObject(None, PxB, None, None),
      MapObject(Some(NameDot), PxB, None, None),
      MapObject(Some(NameV), PxElsewhere, Some("Igrok"), None),
      MapObject(Some(NameW), PxB, None, HiddenProps(Absent, Absent)),
      MapObject(Some(NameW), PxB, None, HiddenProps(Attr(NameV), Absent)),
      MapObject(Some(NameW), PxB, None, HiddenProps(Absent, Attr("g"))),
      MapObject(Some(NameW), PxB, None, HiddenProps(Absent, TextOnly("a-b"))),
      MapObject(Some(NameV), PxC, None, HiddenProps(Absent, Absent)) }

\* The group labels get_player can give a Player: the default "", a label,
\* and None (a property present with an empty value and no text).
ViewerGroups == {Some(""), Some("g"), None}

Named(objs, name) == {i \in 1..Len(objs) : objs[i].name = Some(name)}

\* The first object, in document order, of that name.
FirstNamed(objs, name) ==
    objs[CHOOSE i \in Named(objs, name) : \A j \in Named(objs, name) : i <= j]

Viewer(objs, name, group, isBlind) ==
    [position |-> <<FirstNamed(objs, name).x, FirstNamed(objs, name).y>>,
     name |-> name, group |-> group, isBlind |-> isBlind]

InitRoom ==
    /\ floors = <<>>
    /\ chunks = {}
    /\ tiles = <<>>
    /\ objects \in SeqsUpTo(RoomObjects, MaxObjects)
    /\ inventory = <<>>
    /\ \E name \in {NameV, NameW} :
          /\ Named(objects, name) # {}
          /\ player = Viewer(objects, name, Some(""), FALSE)
    /\ op = <<"idle">>
    /\ result = Idle

\* The next query is made for the same player with another group label or
\* blindness flag in the document.
ViewerChanges ==
    /\ \/ \E g \in ViewerGroups \ {player.group} : player' = [player EXCEPT !.group = g]
       \/ player' = [player EXCEPT !.isBlind = ~player.isBlind]
    /\ op' = <<"idle">>
    /\ result' = Idle
    /\ UNCHANGED <<floors, chunks, tiles, objects, inventory>>

RenderRoom ==
    /\ op' = <<"render_room">>
    /\ result' = construct_ascii_room(objects, player)
    /\ UNCHANGED <<floors, chunks, tiles, objects, inventory, player>>

NextRoom == ViewerChanges \/ RenderRoom

SpecRoom == InitRoom /\ [][NextRoom]_vars

-----------------------------------------------------------------------------
(* Claims about the Room Renderer *)

RoomRendered == op = <<"render_room">> /\ result.kind = "ok"

\* The value of a property as the data model gives it: the attribute, or the
\* element text when there is no attribute.
PropertyValue(obj, key) ==
    IF obj.props = None \/ ~obj.props[1][key].present THEN None
    ELSE IF obj.props[1][key].value # None THEN obj.props[1][key].value
    ELSE obj.props[1][key].text

IsHidden(obj) == PropertyValue(obj, "hidden") = Some("true")

InViewersRoom(obj) ==
    /\ obj.x \div 32 = player.position[1] \div 32
    /\ obj.y \div 32 = player.position[2] \div 32

ViewerOwns(obj) == PropertyValue(obj, "owner") = Some(player.name)
SharesGroup(obj) ==
    /\ PropertyValue(obj, "group") # None
    /\ PropertyValue(obj, "group") # Some("")
    /\ PropertyValue(obj, "group") = player.group
BearsName(obj) == obj.name = Some(player.name)
Entitled(obj) == ViewerOwns(obj) \/ SharesGroup(obj) \/ BearsName(obj)

Without(seq, i) == SubSeq(seq, 1, i - 1) \o SubSeq(seq, i + 1, Len(seq))

\* C3 (as claimed): the output does not depend on the presence of a hidden
\* object the viewer is not entitled to, and a hidden object of the room is
\* listed exactly when the viewer owns it, shares its non-empty group label
\* or bears its name.
C3_HiddenNotRevealed ==
    op = <<"render_room">> =>
        \A i \in 1..Len(objects) :
            (IsHidden(objects[i]) /\ InViewersRoom(objects[i])) =>
                /\ ~Entitled(objects[i]) =>
                      result = construct_ascii_room(Without(objects, i), player)
                /\ Entitled(objects[i]) <=>
                      Len(get_same_room_objects(objects, player))
                         > Len(get_same_room_objects(Without(objects, i), player))

\* The objects the loop assigns to a cell: the listed objects, for a blind
\* viewer those within one cell of the viewer.
Near(o) ==
    LET vx == (player.position[1] % 32) \div 4
        vy == (player.position[2] % 32) \div 4
    IN  /\ o.x - vx <= 1 /\ vx - o.x <= 1
        /\ o.y - vy <= 1 /\ vy - o.y <= 1

Assigned == 
    LET l == get_same_room_objects(objects, player)
    IN  {i \in 1..Len(l) : ~player.isBlind \/ Near(l[i])}

Listed(i) == get_same_room_objects(objects, player)[i]

LegendKeys == {result.value.legend[i][1] : i \in 1..Len(result.value.legend)}

\* C4 (as claimed): the legend has one entry per glyph placed in the grid,
\* every placed glyph has an entry, no name list is empty, and every object
\* assigned to a cell is named in the entry of that cell's glyph.
C4_LegendMatchesGrid ==
    RoomRendered =>
        LET legend == result.value.legend
            rows == result.value.rows
        IN  /\ \A i, j \in 1..Len(legend) : legend[i][1] = legend[j][1] => i = j
            /\ \A i \in 1..Len(legend) :
                  /\ legend[i][2] # <<>>
                  /\ \E k \in Assigned : rows[Listed(k).y + 1][Listed(k).x + 1] = legend[i][1]
            /\ \A k \in Assigned :
                  /\ rows[Listed(k).y + 1][Listed(k).x + 1] \in LegendKeys
                  /\ Contains(DictGet(legend, rows[Listed(k).y + 1][Listed(k).x + 1]),
                              Listed(k).name)

\* The document without the objects of the viewer's room that are more than
\* one cell away from the viewer.
NearObjects ==
    SelectSeq(objects, LAMBDA o :
        ~InViewersRoom(o) \/ Near([x |-> (o.x % 32) \div 4, y |-> (o.y % 32) \div 4]))

\* C6: for a blind viewer every cell more than one cell away shows '?',
\* every empty cell of the 3x3 window shows '.', and the objects outside the
\* window leave no trace: grid, legend, used glyphs and fallback cursor are
\* those of the document without them.
C6_BlindWindow ==
    (op = <<"render_room">> /\ player.isBlind) =>
        /\ RoomLoop(RoomStart(player), get_same_room_objects(objects, player), player)
              = RoomLoop(RoomStart(player), get_same_room_objects(NearObjects, player), player)
        /\ result = construct_ascii_room(NearObjects, player)
        /\ result.kind = "ok" =>
              \A x, y \in 0..7 :
                  /\ ~Near([x |-> x, y |-> y]) => result.value.rows[y + 1][x + 1] = Unknown
                  /\ (Near([x |-> x, y |-> y])
                        /\ \A k \in Assigned : <<Listed(k).x, Listed(k).y>> # <<x, y>>)
                     => result.value.rows[y + 1][x + 1] = Dot

C6_Witness ==
    /\ RoomRendered
    /\ player.isBlind
    /\ Len(result.value.legend) >= 2
    /\ \E i \in 1..Len(objects) :
          /\ InViewersRoom(objects[i])
          /\ ~IsHidden(objects[i])
          /\ ~Near([x |-> (objects[i].x % 32) \div 4, y |-> (objects[i].y % 32) \div 4])

\* The objects the loop assigned to a cell (x, y from 0).
AssignedAt(x, y) == {k \in Assigned : Listed(k).x = x /\ Listed(k).y = y}

\* The step of the loop at which the cell got its glyph.
FirstAssigned(x, y) == CHOOSE k \in AssignedAt(x, y) : \A m \in AssignedAt(x, y) : k <= m

\* C14 (as claimed): the legend lines are in the order in which their cells
\* got a glyph; a cell the viewer joins later keeps its place.
C14_LegendInFirstAssignedOrder ==
    RoomRendered =>
        \A i, j \in 1..Len(result.value.legend) : \A cx, cy, dx, dy \in 0..7 :
            ( /\ i < j
              /\ AssignedAt(cx, cy) # {}
              /\ AssignedAt(dx, dy) # {}
              /\ result.value.rows[cy + 1][cx + 1] = result.value.legend[i][1]
              /\ result.value.rows[dy + 1][dx + 1] = result.value.legend[j][1] )
            => FirstAssigned(cx, cy) < FirstAssigned(dx, dy)

-----------------------------------------------------------------------------
(* locate_player and inventory_of: the documents of SpecPlayer *)

PlayerProps(id, inv) == Some([NoProps EXCEPT !.id = id, !.inventory = inv])

\* Two lines: a price, and an item with a worn durability pair.
TwoLines == <<Tok("price", 27, 0), Tok("nl", 0, 0), Tok("text", 1, 0), Tok("pair", 5, 20)>>

PlayerObjects ==
    { [name |-> Some(NameV), x |-> 5, y |-> 6, class |-> Some("Igrok"),
       children |-> FALSE, props |-> None],
      [name |-> Some(NameV), x |-> 5, y |-> 6, class |-> Some("Igrok"),
       children |-> TRUE, props |-> None],
      [name |-> None, x |-> 5, y |-> 6, class |-> Some("Igrok"),
       children |-> TRUE, props |-> PlayerProps(Attr("1"), Absent)] }
    \cup { [name |-> Some(n), x |-> 8, y |-> 11, class |-> Some("Igrok"),
            children |-> TRUE, props |-> PlayerProps(id, Absent)] :
              n \in {NameV, NameW}, id \in {Attr("1"), Attr("2"), Attr("")} }
    \cup { [name |-> Some(NameV), x |-> 12, y |-> 4, class |-> Some("Igrok"),
            children |-> TRUE, props |-> PlayerProps(Attr("1"), inv)] :
              inv \in {Attr(<<>>), Attr(<<Tok("price", 27, 0)>>), TextOnly(TwoLines)} }

ExternalIds == {"1", "2", ""}

InitPlayer ==
    /\ floors = <<>>
    /\ chunks = {}
    /\ tiles = <<>>
    /\ objects \in SeqsUpTo(PlayerObjects, MaxObjects)
    /\ inventory = <<>>
    /\ player = None
    /\ op = <<"idle">>
    /\ result = Idle

LocatePlayer ==
    /\ \E name \in {NameV, NameW}, id \in ExternalIds :
          /\ op' = <<"locate_player", name, id>>
          /\ result' = get_player(objects, name, id)
    /\ player' = IF result'.kind = "ok" THEN Some(result'.value) ELSE None
    /\ UNCHANGED <<floors, chunks, tiles, objects, inventory>>

InventoryOf ==
    /\ \E name \in {NameV, NameW} :
          /\ op' = <<"inventory_of", name>>
          /\ result' = get_objects_inventory(objects, name)
    /\ UNCHANGED <<floors, chunks, tiles, objects, inventory, player>>

NextPlayer == LocatePlayer \/ InventoryOf

SpecPlayer == InitPlayer /\ [][NextPlayer]_vars

-----------------------------------------------------------------------------
(* Claims about locate_player and inventory_of *)

\* The first object of the document bearing the name, or None.
FirstBearing(name) ==
    IF \A i \in 1..Len(objects) : objects[i].name # Some(name) THEN None
    ELSE Some(objects[CHOOSE i \in 1..Len(objects) :
                  /\ objects[i].name = Some(name)
                  /\ \A j \in 1..(i - 1) : objects[j].name # Some(name)])

\* The player-ID property of an object; absent counts as the empty string.
IdentityOf(obj) ==
    IF PropertyValue(obj, "id") = None THEN "" ELSE PropertyValue(obj, "id")[1]

\* C2 (as claimed): locate_player(name, external_id) raises NotFound exactly
\* when no object bears the name; otherwise it raises the identity mismatch
\* exactly when external_id differs from the player-ID property of the first
\* object bearing the name, and else returns a Player.
C2_LocateContract ==
    op[1] = "locate_player" =>
        LET obj == FirstBearing(op[2])
        IN  IF obj = None
            THEN result.kind = "raise" /\ result.exc = "MapObjectNotFoundException"
            ELSE IF op[3] # IdentityOf(obj[1])
            THEN result.kind = "raise" /\ result.exc = "MapObjectWrongIDException"
            ELSE result.kind = "ok"

\* The lines of the inventory property of an object; an absent or empty
\* property is one empty line.
SourceLines(obj) ==
    IF PropertyValue(obj, "inventory") = None THEN <<<<>>>>
    ELSE Split(PropertyValue(obj, "inventory")[1])

\* The queries that got as far as formatting the inventory of an object.
InventoryFormatted ==
    /\ op[1] \in {"locate_player", "inventory_of"}
    /\ FirstBearing(op[2]) # None
    /\ ~(result.kind = "raise"
          /\ result.exc \in {"MapObjectNotFoundException", "MapObjectWrongIDException"})

FormattedInventory == IF op[1] = "locate_player" THEN result.value.inventory ELSE result.value

\* C10 (as claimed): the formatted inventory has one entry per line of the
\* inventory property, in order, entry i being the formatting of line i
\* alone; an absent or empty property gives the single empty entry.
C10_EntryPerLine ==
    InventoryFormatted =>
        LET lines == SourceLines(FirstBearing(op[2])[1])
        IN  /\ result.kind = "ok"
            /\ Len(FormattedInventory) = Len(lines)
            /\ \A i \in 1..Len(lines) :
                  <<FormattedInventory[i]>> = format_inventory_list(<<lines[i]>>).value
            /\ lines = <<<<>>>> => FormattedInventory = <<<<>>>>

-----------------------------------------------------------------------------
(* format_inventory_list: the item lists of SpecInv *)

InvTokens ==
    { Tok("text", 1, 0), Tok("pair", 5, 20), Tok("pair", 6, 20), Tok("pair", 1, 0),
      Tok("pair", 19, 20), Tok("alias", 0, 0), Tok("lbrace", 0, 0),
      Tok("hidcomma", 0, 0), Tok("price", 27, 0) }

InitInv ==
    /\ floors = <<>>
    /\ chunks = {}
    /\ tiles = <<>>
    /\ objects = NoObjects
    /\ inventory \in SeqsUpTo(SeqsUpTo(InvTokens, MaxLineLen), MaxLines)
    /\ player = None
    /\ op = <<"idle">>
    /\ result = Idle

FormatInventory ==
    /\ op' = <<"format_inventory_list">>
    /\ result' = format_inventory_list(inventory)
    /\ UNCHANGED <<floors, chunks, tiles, objects, inventory, player>>

\* The next call formats the list with one more item.
AddItem ==
    /\ Len(inventory) < MaxLines
    /\ \E item \in SeqsUpTo(InvTokens, MaxLineLen) : inventory' = Append(inventory, item)
    /\ op' = <<"idle">>
    /\ result' = Idle
    /\ UNCHANGED <<floors, chunks, tiles, objects, player>>

NextInv == FormatInventory \/ AddItem

SpecInv == InitInv /\ [][NextInv]_vars

-----------------------------------------------------------------------------
(* Claims about format_inventory_list *)

\* C9 (as claimed): formatting never fails, and in every formatted line a
\* durability pair (a/b) is wrapped in the warning colour exactly when
\* 4*a <= b, whatever other pairs the line holds.
C9_PairColouredByOwnRatio ==
    op = <<"format_inventory_list">> =>
        /\ result.kind = "ok"
        /\ \A i \in 1..Len(result.value) : \A k \in 1..Len(result.value[i]) :
              result.value[i][k].t = "pair" =>
                 (result.value[i][k].color = "RED"
                     <=> 4 * result.value[i][k].a <= result.value[i][k].b)

-----------------------------------------------------------------------------
(* __get_tile: the documents and coordinates of SpecTile *)

\* Coordinates on both sides of the chunk borders at -16, 0 and 16.
TileAxis == {-17, -16, -1, 0, 1, 15, 16}
TileCoords == {<<x, y>> : x \in TileAxis, y \in TileAxis}

MaxPhase == 5

\* A tile layer whose ids differ along both axes.
TilePattern(k) == [p \in TileCoords |-> (p[1] + 3 * p[2] + k) % 6]

TileChunkSets == SUBSET {<<0, 0>>, <<-16, 0>>, <<0, -16>>, <<-16, -16>>, <<16, 0>>}

InitTile ==
    /\ floors = <<>>
    /\ chunks \in TileChunkSets
    /\ \E k \in 0..MaxPhase : tiles = TilePattern(k)
    /\ objects = NoObjects
    /\ inventory = <<>>
    /\ player = None
    /\ op = <<"idle">>
    /\ result = Idle

ResolveTile ==
    /\ \E pos \in TileCoords :
          /\ op' = <<"get_tile", pos>>
          /\ result' = get_tile(pos)
    /\ UNCHANGED <<floors, chunks, tiles, objects, inventory, player>>

NextTile == ResolveTile

SpecTile == InitTile /\ [][NextTile]_vars

-----------------------------------------------------------------------------
(* Claims about the Tile Resolver *)

\* The multiple of 16 at or below a coordinate.
OriginOf(x) == CHOOSE o \in -64..64 : o % 16 = 0 /\ o <= x /\ x < o + 16

\* C11: for every coordinate, negative ones included, the resolver returns
\* the id at index (y mod 16)*16 + (x mod 16) of the chunk declared at
\* (x - x mod 16, y - y mod 16), which is the id the layer stores for (x, y);
\* it raises, naming the coordinate, exactly when no such chunk is declared.
C11_TileAtIndex ==
    op[1] = "get_tile" =>
        LET x == op[2][1]
            y == op[2][2]
            origin == <<OriginOf(x), OriginOf(y)>>
        IN  /\ origin = <<x - (x % 16), y - (y % 16)>>
            /\ IF origin \in chunks
               THEN /\ result = Ok(ChunkData(origin, (y % 16) * 16 + (x % 16)))
                    /\ result = Ok(StoredTile(<<x, y>>))
               ELSE result = Raise("UnknownTile", <<x, y>>)

C11_Witness ==
    /\ op[1] = "get_tile"
    /\ op[2][1] < 0
    /\ op[2][2] > 0
    /\ result.kind = "ok"
    /\ result.value \notin {NULL, EMPTY}

-----------------------------------------------------------------------------
(* get_same_room_objects: the documents of SpecOrder *)

\* The name "v1".
NameV1 == <<118, 49>>

\* A pixel of cell (0, 0) of room (0, 0).
PxOrigin == <<0, 0>>

OrderObjects ==
    { MapObject(Some(n), px, None, None) :
        n \in {NameV, NameV1, NameW}, px \in {PxOrigin, PxA, PxB, PxElsewhere} }

InitOrder ==
    /\ floors = <<>>
    /\ chunks = {}
    /\ tiles = <<>>
    /\ objects \in SeqsUpTo(OrderObjects, MaxObjects)
    /\ inventory = <<>>
    /\ player = [position |-> PxA, name |-> NameV, isBlind |-> FALSE, group |-> Some("")]
    /\ op = <<"idle">>
    /\ result = Idle

SameRoomObjects ==
    /\ op' = <<"get_same_room_objects">>
    /\ result' = Ok(get_same_room_objects(objects, player))
    /\ UNCHANGED <<floors, chunks, tiles, objects, inventory, player>>

NextOrder == SameRoomObjects

SpecOrder == InitOrder /\ [][NextOrder]_vars

-----------------------------------------------------------------------------
(* Claims about the order of the room's objects *)

\* Strict lexicographic order of strings; a proper prefix is smaller.
RECURSIVE StringBefore(_, _)
StringBefore(a, b) ==
    /\ b # <<>>
    /\ \/ a = <<>>
       \/ a[1] < b[1]
       \/ a[1] = b[1] /\ StringBefore(Tail(a), Tail(b))

\* Strict lexicographic order of the triples (name, str(x), str(y)); local
\* coordinates are single digits.
TripleBefore(a, b) ==
    \/ StringBefore(a.name, b.name)
    \/ a.name = b.name /\ a.x < b.x
    \/ a.name = b.name /\ a.x = b.x /\ a.y < b.y

\* C12 (as claimed): an object whose triple (name, local x, local y) is
\* strictly smaller than another's comes before it in the list.
C12_OrderedByTriple ==
    op = <<"get_same_room_objects">> =>
        \A i, j \in 1..Len(result.value) :
            TripleBefore(result.value[i], result.value[j]) => i < j

-----------------------------------------------------------------------------
(* construct_ascii_room: the documents of SpecGlyph, whose names begin with *)
(* Latin and Cyrillic look-alikes, with a character of the fallback        *)
(* alphabet and with the character of a free cell.                         *)

\* The names "A", "a", Cyrillic "a" and "!".
NameUpperA == <<65>>
NameLowerA == <<97>>
NameCyrA == <<1072>>
NameBang == <<33>>

GlyphObjects ==
    { MapObject(Some(n), px, None, None) :
        n \in {NameUpperA, NameLowerA, NameCyrA, NameBang}, px \in {PxOrigin, PxA, PxB} }
    \cup { MapObject(Some(NameDot), PxB, None, None) }

InitGlyph ==
    /\ floors = <<>>
    /\ chunks = {}
    /\ tiles = <<>>
    /\ objects \in SeqsUpTo(GlyphObjects, MaxObjects)
    /\ inventory = <<>>
    /\ \E name \in {NameW, NameLowerA} :
          player = [position |-> PxA, name |-> name, isBlind |-> FALSE, group |-> Some("")]
    /\ op = <<"idle">>
    /\ result = Idle

NextGlyph == RenderRoom

SpecGlyph == InitGlyph /\ [][NextGlyph]_vars

-----------------------------------------------------------------------------
(* Claims about the glyphs of the room *)

\* Identical, or a Latin/Cyrillic look-alike pair in either order.
LooksAlike(a, b) ==
    a = b \/ <<a, b>> \in LAT_CYR_LOOKALIKES \/ <<b, a>> \in LAT_CYR_LOOKALIKES

GridCells == {<<x, y>> : x \in 1..8, y \in 1..8}
\* The cells that show a glyph; a blind viewer's grid shows none outside the
\* window.
Occupied(rows) ==
    {c \in GridCells :
        /\ rows[c[2]][c[1]] # Dot
        /\ ~player.isBlind \/ Near([x |-> c[1] - 1, y |-> c[2] - 1])}
GlyphsOf(rows) == {rows[c[2]][c[1]].ch : c \in Occupied(rows)}

\* The characters handed out so far.
HandedOut(st) == {st.usedChars[j] : j \in 1..Len(st.usedChars)}

\* The candidates of a name in the order of the claim, with the fallback
\* alphabet from the cursor on.
Candidates(name, cursor) ==
    <<Upper(name[1]), Lower(name[1])>>
        \o SubSeq(ASCII_DEFAULT_CHARS, cursor + 1, Len(ASCII_DEFAULT_CHARS))

IsFree(c, used) == \A u \in used : ~LooksAlike(c, u)

FirstFree(cands, used) ==
    CHOOSE i \in 1..Len(cands) :
        IsFree(cands[i], used) /\ \A j \in 1..(i - 1) : ~IsFree(cands[j], used)

\* The state of the loop after the first k objects of the room.
After(k) ==
    RoomLoop(RoomStart(player),
             SubSeq(get_same_room_objects(objects, player), 1, k), player).value

\* C13: after render_room no two occupied cells hold glyphs that are equal
\* or look-alikes, and every object that occupied a free cell got the first
\* candidate that is no look-alike of a character handed out before, among
\* the upper-cased first letter, the lower-cased first letter and the
\* fallback alphabet from the cursor on, the cursor moving by one for every
\* fallback character tried.
C13_GlyphsDistinct ==
    RoomRendered =>
        /\ \A c, d \in Occupied(result.value.rows) :
              c # d => ~LooksAlike(result.value.rows[c[2]][c[1]].ch,
                                   result.value.rows[d[2]][d[1]].ch)
        /\ \A k \in 1..Len(get_same_room_objects(objects, player)) :
              LET o == Listed(k)
                  before == After(k - 1)
                  cands == Candidates(o.name, before.nextDefaultIndex)
                  i == FirstFree(cands, HandedOut(before))
              IN  before.rows[o.y + 1][o.x + 1] = Dot =>
                     /\ After(k).rows[o.y + 1][o.x + 1].ch = cands[i]
                     /\ After(k).nextDefaultIndex
                           = before.nextDefaultIndex + (IF i > 2 THEN i - 2 ELSE 0)

\* The fallback alphabet is reached through look-alikes alone.
C13_Witness ==
    /\ RoomRendered
    /\ 33 \in GlyphsOf(result.value.rows)
    /\ \A i \in 1..Len(objects) : objects[i].name # Some(NameBang)
    /\ \E i \in 1..Len(objects) : objects[i].name = Some(NameCyrA)

-----------------------------------------------------------------------------
(* Claims about the tile lookups of the Floor Renderer and the Door Finder *)

\* The room cells inside the bounds of a floor object.
BoundsCells(f) ==
    {<<x, y>> : x \in (f.start[1] \div 32)..(f.start[1] \div 32 + f.size[1] \div 32 - 1),
                y \in (f.start[2] \div 32)..(f.start[2] \div 32 + f.size[2] \div 32 - 1)}

\* A chunk is declared for the room cell.
Covered(cell) == <<OriginOf(cell[1]), OriginOf(cell[2])>> \in chunks

\* C15 (as claimed): for a viewer on a floor, render_floor succeeds whenever
\* every room cell inside the floor's bounds is covered by a chunk, and a
\* tile-lookup failure names a cell inside those bounds.
C15_LookupsInsideBounds ==
    (op[1] = "render_floor" /\ ~OffEveryFloor) =>
        LET cells == BoundsCells(floors[FloorIndexAt(player.position)])
        IN  /\ (\A c \in cells : Covered(c)) => result.kind = "ok"
            /\ (result.kind = "raise" /\ result.exc = "UnknownTile") => result.at \in cells

\* C16 (as claimed): for a player in a room of a floor all of whose rooms
\* are covered by chunks, describe_doors returns a sentence, and a direction
\* whose neighbouring room lies outside every floor or outside every chunk
\* is not among the doors.
C16_DoorsNeverFail ==
    ( /\ op = <<"describe_doors">>
      /\ ~OffEveryFloor
      /\ \A c \in BoundsCells(floors[FloorIndexAt(player.position)]) : Covered(c) )
    => /\ result.kind = "ok"
       /\ \A dir \in Directions :
             ( \/ FloorIndexAt(<<NeighbourOf(dir)[1] * 32, NeighbourOf(dir)[2] * 32>>) = 0
               \/ ~Covered(NeighbourOf(dir)) )
             => ~Contains(result.value.doors, dir)

=============================================================================
